---- MODULE Spec2Model ----
(***************************************************************************)
(* honeylager: a lager.Sink that turns each log record into a libhoney     *)
(* event (Sink.Log), and a loop that drains libhoney's response channel    *)
(* and prints one line per response (ReadResponses).                       *)
(*                                                                         *)
(* libhoney and lager are external libraries; they appear here only at    *)
(* the calls honeylager makes into them.                                   *)
(***************************************************************************)
EXTENDS Integers, Sequences, FiniteSets, TLC

VARIABLES
    sink,       \* the *Sink NewSink returned: minLogLevel and the builder's keys
    heapAlloc,  \* runtime.MemStats.Alloc as ReadMemStats would report it now
    calls,      \* number of Sink.Log calls made so far
    last,       \* what the most recent Sink.Log call received and did
    tokens,     \* Metadata["id"] of every event handed to ev.Send() so far
    pending,    \* Metadata of the events libhoney accepted and has not answered
    responses,  \* the channel libhoney.Responses(), oldest first
    closed,     \* libhoney.Close() has run: the channel is closed
    rr,         \* the goroutine running ReadResponses
    logCalls    \* Sink.Log calls in progress on goroutines of their own

vars == <<sink, heapAlloc, calls, last, tokens, pending, responses, closed, rr,
          logCalls>>

----------------------------------------------------------------------------
(* Bounds of the exploration.                                              *)

\* Sink.Log calls explored in one behaviour.
MaxLogs == 2

\* Goroutines that are inside Sink.Log at the same time.
NumCallers == 2

\* Raw level values explored on either side of DEBUG .. FATAL.
LevelMargin == 2

----------------------------------------------------------------------------
(* Constants of the program and of the libraries it names.                 *)

metadataKeyID == "id"
MaxInt32 == 2147483647
StatusOK == 200
StatusMultipleChoices == 300
DEBUG == 0
INFO == 1
ERROR == 2
FATAL == 3
NanosPerSecond == 1000000000

\* lager.LogLevel is an int: the four named levels and one value beyond them.
Levels == DEBUG .. (FATAL + 1)

----------------------------------------------------------------------------
(* Go values.                                                              *)

\* map[string]interface{} with no entries.
EmptyMap == [k \in {} |-> ""]

\* m[k] on a Go map read into an interface{}: a missing key reads as nil.
MapIndex(m, k) ==
    IF k \in DOMAIN m THEN [nil |-> FALSE, v |-> m[k]] ELSE [nil |-> TRUE, v |-> 0]

\* An interface{} used as Event.Metadata / Response.Metadata.
NilMetadata == [kind |-> "nil", val |-> EmptyMap]
MapMetadata(m) == [kind |-> "map[string]interface{}", val |-> m]
StringMetadata == [kind |-> "string", val |-> EmptyMap]

\* time.Time: either the instant libhoney stamped at NewEvent (time.Now())
\* or an instant built by time.Unix.
TimeNow == [kind |-> "now", sec |-> 0, nsec |-> 0]
ZeroTime == [kind |-> "zero", sec |-> 0, nsec |-> 0]

\* time.Unix(sec, nsec): nsec outside [0, 1e9) is carried into sec.
Unix(sec, nsec) ==
    LET n == IF nsec < 0 \/ nsec >= NanosPerSecond
             THEN (IF nsec < 0 THEN -((-nsec) \div NanosPerSecond)
                               ELSE nsec \div NanosPerSecond)
             ELSE 0
        s1 == sec + n
        ns1 == nsec - n * NanosPerSecond
    IN  IF ns1 < 0
        THEN [kind |-> "unix", sec |-> s1 - 1, nsec |-> ns1 + NanosPerSecond]
        ELSE [kind |-> "unix", sec |-> s1, nsec |-> ns1]

----------------------------------------------------------------------------
(* parseLagerTimestamp.  A timestamp string is a sequence of one-character *)
(* strings.  strconv.ParseFloat accepts an optional sign, digits with at   *)
(* most one point and at least one digit (exponents, hex, inf and nan are  *)
(* outside the alphabet used here) and returns the float64 nearest to the  *)
(* decimal value, ties to even.  The float64 is kept as an integer part    *)
(* and a numerator over a power of two, all within 32 bits: for values of  *)
(* 2^22 and more that is the float64 itself when the string has at most    *)
(* nine fractional digits, and so it is for any value whose fraction is a  *)
(* multiple of 2^-9 (.5, .25, .125); other fractions below 2^22 are kept   *)
(* to 30 bits only.  The strings explored lie in the first two ranges.     *)

\* Bits of a float64 mantissa after the leading one.
MantissaBits == 52

DigitChars == {"0", "1", "2", "3", "4", "5", "6", "7", "8", "9"}

DigitVal(c) ==
    CASE c = "0" -> 0 [] c = "1" -> 1 [] c = "2" -> 2 [] c = "3" -> 3
      [] c = "4" -> 4 [] c = "5" -> 5 [] c = "6" -> 6 [] c = "7" -> 7
      [] c = "8" -> 8 [] c = "9" -> 9

RECURSIVE DecimalValue(_)
DecimalValue(ds) ==
    IF ds = <<>> THEN 0
    ELSE 10 * DecimalValue(SubSeq(ds, 1, Len(ds) - 1)) + DigitVal(ds[Len(ds)])

RECURSIVE Pow10(_)
Pow10(n) == IF n <= 0 THEN 1 ELSE 10 * Pow10(n - 1)

RECURSIVE Pow2(_)
Pow2(n) == IF n <= 0 THEN 1 ELSE 2 * Pow2(n - 1)

\* 10^9 = 2^9 * 5^9.
FiveToNine == NanosPerSecond \div Pow2(9)

\* floor(log2(x)) for x >= 1.
RECURSIVE Log2(_)
Log2(x) == IF x <= 1 THEN 0 ELSE 1 + Log2(x \div 2)

\* Quotient and remainder of a * 2^j by c, for a <= c <= 10^9.
RECURSIVE ScalePow2(_, _, _)
ScalePow2(a, j, c) ==
    IF j <= 0 THEN [q |-> a \div c, r |-> a % c]
    ELSE LET p == ScalePow2(a, j - 1, c)
         IN  [q |-> 2 * p.q + (2 * p.r) \div c, r |-> (2 * p.r) % c]

\* Quotient and remainder of x * y by c, for c <= 2^21.
RECURSIVE MulDiv(_, _, _)
MulDiv(x, y, c) ==
    IF x = 0 THEN [q |-> 0, r |-> 0]
    ELSE LET p == MulDiv(x \div 2, y, c)
             bit == x % 2
             t == 2 * p.r + bit * (y % c)
         IN  [q |-> 2 * p.q + t \div c + bit * (y \div c), r |-> t % c]

ErrSyntax == "strconv.ParseFloat: invalid syntax"
NoError == "nil"

\* The characters after an optional sign.
Unsigned(ts) ==
    IF Len(ts) > 0 /\ ts[1] \in {"+", "-"} THEN Tail(ts) ELSE ts

\* Digits with at most one point and at least one digit.
ValidFloat(body) ==
    /\ \A i \in DOMAIN body : body[i] \in DigitChars \cup {"."}
    /\ Cardinality({i \in DOMAIN body : body[i] = "."}) <= 1
    /\ \E i \in DOMAIN body : body[i] \in DigitChars

\* Index of the point, or one past the end when there is none.
DotIndex(body) ==
    IF \E i \in DOMAIN body : body[i] = "."
    THEN CHOOSE i \in DOMAIN body : body[i] = "."
    ELSE Len(body) + 1

\* The integer part of the decimal.
Whole(body) == DecimalValue(SubSeq(body, 1, DotIndex(body) - 1))

\* The first nine digits of a digit string, in units of 10^-9.
NineDigits(fracDigits) ==
    IF Len(fracDigits) > 9
    THEN DecimalValue(SubSeq(fracDigits, 1, 9))
    ELSE DecimalValue(fracDigits) * Pow10(9 - Len(fracDigits))

\* The fraction of the decimal in units of 10^-9.
Billionths(body) == NineDigits(SubSeq(body, DotIndex(body) + 1, Len(body)))

\* Bits of the float64 mantissa that lie after the binary point.  A fraction
\* that is a multiple of 2^-9 is a float64 fraction as it is.
FractionBits(whole, billionths) ==
    IF billionths % FiveToNine = 0 THEN 9
    ELSE IF whole >= Pow2(22) THEN MantissaBits - Log2(whole)
    ELSE 30

\* whole + billionths / 10^9 rounded to bits fraction bits, ties to even.
RoundToBits(neg, whole, billionths, bits) ==
    LET s == ScalePow2(billionths, bits, NanosPerSecond)
        up == \/ 2 * s.r > NanosPerSecond
              \/ 2 * s.r = NanosPerSecond /\ s.q % 2 = 1
        \* a multiple of 2^-9 needs no rounding
        k == IF billionths % FiveToNine = 0 THEN billionths \div FiveToNine
             ELSE IF up THEN s.q + 1 ELSE s.q
    IN  IF k = Pow2(bits)
        THEN [err |-> NoError, neg |-> neg, int |-> whole + 1, num |-> 0,
              bits |-> bits]
        ELSE [err |-> NoError, neg |-> neg, int |-> whole, num |-> k,
              bits |-> bits]

NearestFloat(neg, whole, billionths) ==
    RoundToBits(neg, whole, billionths, FractionBits(whole, billionths))

\* strconv.ParseFloat(ts, 9): the bit size is not 32, so the result is the
\* nearest float64.  Its magnitude is int + num / 2^bits.
ParseFloat(ts) ==
    IF ~ValidFloat(Unsigned(ts))
    THEN [err |-> ErrSyntax, neg |-> FALSE, int |-> 0, num |-> 0, bits |-> 0]
    ELSE NearestFloat(Len(ts) > 0 /\ ts[1] = "-",
                      Whole(Unsigned(ts)), Billionths(Unsigned(ts)))

\* (timeFloat - float64(seconds)) * 1e9 for the magnitude of f, truncated:
\* the difference and the product are exact in float64 here, so this is
\* floor(num * 10^9 / 2^bits) = floor(num * 5^9 / 2^(bits - 9)).
FractionNanos(f) ==
    LET d == Pow2(f.bits - 9)
    IN  (f.num \div d) * FiveToNine + MulDiv(f.num % d, FiveToNine, d).q

\* The same product rounded to the nearest integer instead of truncated.
FractionNanosRounded(f) ==
    LET d == Pow2(f.bits - 9)
        m == MulDiv(f.num % d, FiveToNine, d)
    IN  (f.num \div d) * FiveToNine + m.q + (IF 2 * m.r >= d THEN 1 ELSE 0)

\* parseLagerTimestamp with nanos rounded to the nearest nanosecond.
parseLagerTimestampRounding(ts) ==
    LET f == ParseFloat(ts)
        sign == IF f.neg THEN -1 ELSE 1
    IN  IF f.err # NoError
        THEN [err |-> f.err, t |-> ZeroTime]
        ELSE [err |-> NoError,
              t |-> Unix(sign * f.int, sign * FractionNanosRounded(f))]

\* The seconds and nanos taken from timeFloat, handed to time.Unix.
FromFloat(timeFloat) ==
    LET sign == IF timeFloat.neg THEN -1 ELSE 1
        \* seconds := int64(timeFloat)
        seconds == sign * timeFloat.int
        \* nanos := int64((timeFloat - float64(seconds)) * 1e9)
        nanos == sign * FractionNanos(timeFloat)
    IN  IF timeFloat.err # NoError
        THEN [err |-> timeFloat.err, t |-> ZeroTime]
        ELSE [err |-> NoError, t |-> Unix(seconds, nanos)]

\* timeFloat, err := strconv.ParseFloat(lagerTimestamp, 9), computed once.
parseLagerTimestamp(ts) ==
    CHOOSE r \in {FromFloat(timeFloat) : timeFloat \in {ParseFloat(ts)}} : TRUE

----------------------------------------------------------------------------
(* logLevelToString.                                                       *)

\* logLevelToString without the default case's own string.
logLevelToStringDefaultFatal(logLevel) ==
    CASE logLevel = DEBUG -> "DEBUG"
      [] logLevel = INFO -> "INFO"
      [] logLevel = ERROR -> "ERROR"
      [] OTHER -> "FATAL"

logLevelToString(logLevel) ==
    CASE logLevel = DEBUG -> "DEBUG"
      [] logLevel = INFO -> "INFO"
      [] logLevel = ERROR -> "ERROR"
      [] logLevel = FATAL -> "FATAL"
      [] OTHER -> "UNKNOWN"

----------------------------------------------------------------------------
(* The libhoney event as honeylager uses it.                               *)

\* runtime.NumGoroutine(): main, plus the ReadResponses goroutine while it runs.
NumGoroutine == IF rr.pc = "running" THEN 2 ELSE 1

\* NewEvent with the two fields as they were when NewSink ran.
NewEventAtConfigure ==
    [fields |-> ("num_goroutines" :> 1) @@ ("memory_allocation" :> 4096),
     Timestamp |-> TimeNow,
     Metadata |-> NilMetadata]

\* sink.builder.NewEvent(): the builder has no static fields; its two dynamic
\* fields are evaluated now; the timestamp is time.Now(); Metadata is nil.
NewEvent ==
    [fields |-> ("num_goroutines" :> NumGoroutine) @@ ("memory_allocation" :> heapAlloc),
     Timestamp |-> TimeNow,
     Metadata |-> NilMetadata]

NoEvent == [fields |-> EmptyMap, Timestamp |-> ZeroTime, Metadata |-> NilMetadata]

\* ev.AddField(key, val): sets the field, replacing an earlier value.
AddField(ev, key, val) == [ev EXCEPT !.fields = (key :> val) @@ @]


\* Add that merges nothing.
AddNothing(ev, data) == ev

\* ev.Add(data) with a map: one AddField per entry.
Add(ev, data) == [ev EXCEPT !.fields = data @@ @]

\* rand.Intn(n) returns some integer of [0, n); the values explored.
IntnSamples == {0, MaxInt32 - 1}
Intn(n) == {x \in IntnSamples : 0 <= x /\ x < n}

\* The name runtime.FuncForPC gives for the caller two frames up.
FuncName == "main.main"

----------------------------------------------------------------------------
(* Sink.Log, step by step.                                                 *)


\* Filtered with the comparison one level off.
FilteredOneLevelOff(logFormat) == logFormat.LogLevel + 1 < sink.minLogLevel

\* if logFormat.LogLevel < sink.minLogLevel { return }
Filtered(logFormat) == logFormat.LogLevel < sink.minLogLevel

\* runtime.Caller(2) and the "function" field.
WithFunction(ev, callerOK) ==
    IF callerOK THEN AddField(ev, "function", FuncName) ELSE ev


\* WithMetadata that stores the token under another key.
WithMetadataOtherKey(ev, id) == [ev EXCEPT !.Metadata = MapMetadata("ID" :> id)]

\* ev.Metadata = map[string]interface{}{metadataKeyID: rand.Intn(math.MaxInt32)}
WithMetadata(ev, id) == [ev EXCEPT !.Metadata = MapMetadata(metadataKeyID :> id)]

\* The four AddField calls on the record's own fields.
WithFixedFields(ev, logFormat) ==
    LET e1 == AddField(ev, "lager_source", logFormat.Source)
        e2 == AddField(e1, "lager_message", logFormat.Message)
        e3 == AddField(e2, "lager_log_level_iota", logFormat.LogLevel)
    IN  AddField(e3, "lager_log_level", logLevelToString(logFormat.LogLevel))

\* if session, ok := logFormat.Data["session"]; ok { AddField; delete }
WithSession(ev, logFormat) ==
    IF "session" \in DOMAIN logFormat.Data
    THEN AddField(ev, "lager_session", logFormat.Data["session"])
    ELSE ev

\* The delete taking every key with it.
DataAfterSessionDropsAll(logFormat) == EmptyMap

\* No delete after the session has been read.
DataAfterSessionKept(logFormat) == logFormat.Data

\* logFormat.Data after the delete: maps are references, so this is the
\* caller's map too.
DataAfterSession(logFormat) ==
    [k \in DOMAIN logFormat.Data \ {"session"} |-> logFormat.Data[k]]


\* WithTimestamp that assigns ev.Timestamp = ts before looking at err.
WithTimestampAlwaysSet(ev, logFormat) ==
    LET p == parseLagerTimestamp(logFormat.Timestamp)
        e == [ev EXCEPT !.Timestamp = p.t]
    IN  IF p.err # NoError
        THEN AddField(e, "lager_timestamp_parse_error", p.err)
        ELSE e

\* ts, err := parseLagerTimestamp(...); the parse error field or the override.
WithTimestamp(ev, logFormat) ==
    LET p == parseLagerTimestamp(logFormat.Timestamp)
    IN  IF p.err # NoError
        THEN AddField(ev, "lager_timestamp_parse_error", p.err)
        ELSE [ev EXCEPT !.Timestamp = p.t]

\* The event Log hands to ev.Send().
LogEvent(logFormat, callerOK, id) ==
    LET e1 == WithFunction(NewEvent, callerOK)
        e2 == WithMetadata(e1, id)
        e3 == WithFixedFields(e2, logFormat)
        e4 == WithSession(e3, logFormat)
        e5 == Add(e4, DataAfterSession(logFormat))
    IN  WithTimestamp(e5, logFormat)


\* Send that waits until the response channel has been read empty.
SendWaitsForReader == responses = <<>>

\* ev.Send() returns without waiting for the transport or for any reader of
\* the responses (honeylager leaves libhoney's BlockOnSend and
\* BlockOnResponse unset).
SendReady == TRUE

\* printError(err): one line on standard output.
printError(err) == [prefix |-> "honeylager error", err |-> err]

ErrSend == "libhoney: event rejected"


\* ReportSendError that swallows the error.
ReportSendErrorSilent(sendErr) == <<>>

\* The lines Log prints after ev.Send(): if err != nil { printError(err) }.
ReportSendError(sendErr) ==
    IF sendErr THEN <<printError(ErrSend)>> ELSE <<>>

\* The caller's record once Log has returned: LogFormat is passed by value,
\* its Data map by reference.
RecordAfter(logFormat) ==
    IF Filtered(logFormat) THEN logFormat
    ELSE [logFormat EXCEPT !.Data = DataAfterSession(logFormat)]

Log(logFormat, callerOK, id, sendErr) ==
    /\ calls < MaxLogs
    /\ calls' = calls + 1
    /\ IF Filtered(logFormat)
       THEN /\ last' = [logFormat |-> logFormat, Data |-> logFormat.Data,
                        after |-> RecordAfter(logFormat),
                        callerOK |-> callerOK, built |-> 0, sends |-> 0,
                        sendErr |-> FALSE,
                        ev |-> NoEvent, printed |-> <<>>]
            /\ UNCHANGED <<tokens, pending>>
       ELSE \E ev \in {LogEvent(logFormat, callerOK, id)} :
                /\ SendReady
                /\ last' = [logFormat |-> logFormat,
                            Data |-> DataAfterSession(logFormat),
                            after |-> RecordAfter(logFormat),
                            callerOK |-> callerOK, built |-> 1, sends |-> 1,
                            sendErr |-> sendErr,
                            ev |-> ev,
                            printed |-> ReportSendError(sendErr)]
                /\ tokens' = tokens \cup {MapIndex(ev.Metadata.val, metadataKeyID)}
                /\ pending' = IF sendErr \/ closed THEN pending
                              ELSE Append(pending, ev.Metadata)
    /\ UNCHANGED <<sink, heapAlloc, responses, closed, rr, logCalls>>

----------------------------------------------------------------------------
(* The process around the sink.                                            *)

\* Values runtime.ReadMemStats may report for mem.Alloc.
HeapValues == {4096, 8192}

\* The heap grows or shrinks between two reads of the memory statistics.
Allocate ==
    /\ heapAlloc' \in HeapValues \ {heapAlloc}
    /\ UNCHANGED <<sink, calls, last, tokens, pending, responses, closed, rr, logCalls>>

\* sink.Close() -> libhoney.Close(): returns once every accepted event has
\* been answered, and closes the response channel.
Close ==
    /\ ~closed
    /\ pending = <<>>
    /\ closed' = TRUE
    /\ UNCHANGED <<sink, heapAlloc, calls, last, tokens, pending, responses, rr, logCalls>>

----------------------------------------------------------------------------
(* libhoney's side of the response channel.                                *)

\* Status codes a response may carry: those next to the bounds of the 2xx range.
ResponseStatuses == {199, 200, 299, 300}

\* What a response may carry as Metadata for an event sent with metadata m:
\* m itself, nil, a value that is no map, or a map without the key "id".
ResponseMetadata(m) ==
    {m, NilMetadata, StringMetadata, MapMetadata("trace" :> 1)}

ErrNet == "net/http: request failed"
Duration == "12ms"

\* The libhoney.Response for an event sent with metadata m.  The field event
\* is not part of the Go value: it records the metadata the event was sent with.
Response(m, status, metadata) ==
    [StatusCode |-> status,
     Err |-> IF status = 0 THEN ErrNet ELSE NoError,
     Body |-> IF status = 0 THEN "" ELSE "body",
     Duration |-> Duration,
     Metadata |-> metadata,
     event |-> m]

NoResponse == Response(NilMetadata, 0, NilMetadata)

\* libhoney answers one accepted event, in any order, and puts the response
\* on the channel.
Deliver(i, status, metadata) ==
    /\ ~closed
    /\ i \in DOMAIN pending
    /\ metadata \in ResponseMetadata(pending[i])
    /\ responses' = Append(responses, Response(pending[i], status, metadata))
    /\ pending' = SubSeq(pending, 1, i - 1) \o SubSeq(pending, i + 1, Len(pending))
    /\ UNCHANGED <<sink, heapAlloc, calls, last, tokens, closed, rr, logCalls>>

----------------------------------------------------------------------------
(* ReadResponses.                                                          *)

\* A line on standard output.
Line(kind, text, r, id) ==
    [kind |-> kind, text |-> text, StatusCode |-> r.StatusCode, Err |-> r.Err,
     Body |-> r.Body, Metadata |-> r.Metadata, id |-> id, Duration |-> r.Duration]

NoID == [nil |-> TRUE, v |-> 0]


\* Iteration with the lower bound of the status test written <=.
IterationStatusOKFails(r) ==
    IF r.StatusCode <= StatusOK \/ r.StatusCode >= StatusMultipleChoices
    THEN <<Line("error", "bad status code", r, NoID)>>
    ELSE IF r.Metadata = NilMetadata
    THEN <<Line("error", "metadata was nil", r, NoID)>>
    ELSE IF r.Metadata.kind # "map[string]interface{}"
    THEN <<Line("error", "metadata was not expected type map[string]interface{}", r, NoID)>>
    ELSE <<Line("success", "Successfully sent event",
                r, MapIndex(r.Metadata.val, metadataKeyID))>>

\* The lines one iteration of the loop prints for response r.
Iteration(r) ==
    IF r.StatusCode < StatusOK \/ r.StatusCode >= StatusMultipleChoices
    THEN <<Line("error", "bad status code", r, NoID)>>
    ELSE IF r.Metadata = NilMetadata
    THEN <<Line("error", "metadata was nil", r, NoID)>>
    ELSE IF r.Metadata.kind # "map[string]interface{}"
    THEN <<Line("error", "metadata was not expected type map[string]interface{}", r, NoID)>>
    ELSE <<Line("success", "Successfully sent event",
                r, MapIndex(r.Metadata.val, metadataKeyID))>>


\* AfterIteration with return in place of continue after an error line.
AfterIterationReturnOnError(lines) ==
    IF \E i \in DOMAIN lines : lines[i].kind = "error" THEN "done" ELSE "running"

\* Where the loop stands after an iteration: every branch ends in continue
\* or falls off the end of the body, back to the range.
AfterIteration(lines) == "running"

\* go honeylager.ReadResponses(), by the owner of the sink.
StartReadResponses ==
    /\ rr.pc = "idle"
    /\ rr' = [rr EXCEPT !.pc = "running"]
    /\ UNCHANGED <<sink, heapAlloc, calls, last, tokens, pending, responses, closed, logCalls>>

\* One pass of  for r := range libhoney.Responses() { ... }  over a response.
ReadResponse ==
    /\ rr.pc = "running"
    /\ responses # <<>>
    /\ LET r == Head(responses)
           lines == Iteration(r)
       IN  rr' = [pc |-> AfterIteration(lines),
                  consumed |-> rr.consumed + 1,
                  printed |-> rr.printed + Len(lines),
                  failures |-> rr.failures +
                      Len(SelectSeq(lines, LAMBDA l : l.kind = "error")),
                  r |-> r,
                  lines |-> lines]
    /\ responses' = Tail(responses)
    /\ UNCHANGED <<sink, heapAlloc, calls, last, tokens, pending, closed, logCalls>>

\* The range ends: the channel is closed and empty.
ReadResponsesReturn ==
    /\ rr.pc = "running"
    /\ responses = <<>>
    /\ closed
    /\ rr' = [rr EXCEPT !.pc = "done"]
    /\ UNCHANGED <<sink, heapAlloc, calls, last, tokens, pending, responses, closed, logCalls>>

ReadResponses == ReadResponse \/ ReadResponsesReturn

----------------------------------------------------------------------------
(* Construction and the inputs explored.                                   *)

\* NewSink(honeycombWriteKey, honeycombDataset, minLogLevel)
NewSink(honeycombWriteKey, honeycombDataset, minLogLevel) ==
    [minLogLevel |-> minLogLevel,
     builder |-> [WriteKey |-> honeycombWriteKey, Dataset |-> honeycombDataset,
                  dynFields |-> {"num_goroutines", "memory_allocation"}]]

NoCall ==
    [logFormat |-> [Source |-> "", Message |-> "", LogLevel |-> DEBUG,
                    Data |-> EmptyMap, Timestamp |-> <<>>],
     Data |-> EmptyMap,
     after |-> [Source |-> "", Message |-> "", LogLevel |-> DEBUG,
                Data |-> EmptyMap, Timestamp |-> <<>>],
     callerOK |-> FALSE, built |-> 0, sends |-> 0, sendErr |-> FALSE,
     ev |-> NoEvent, printed |-> <<>>]

\* No Sink.Log call is running on a goroutine of its own.
NoLogCalls == [g |-> <<>>, data |-> <<>>]

InitWith(minLevels) ==
    /\ sink \in {NewSink("write-key", "dataset", l) : l \in minLevels}
    /\ heapAlloc = 4096
    /\ calls = 0
    /\ last = NoCall
    /\ tokens = {}
    /\ pending = <<>>
    /\ responses = <<>>
    /\ closed = FALSE
    /\ rr = [pc |-> "idle", consumed |-> 0, printed |-> 0, failures |-> 0,
             r |-> NoResponse, lines |-> <<>>]
    /\ logCalls = NoLogCalls

\* lager.Data maps: none, a session, a session beside a key that is already
\* named lager_session, and keys that collide with a fixed field or do not.
DataMaps ==
    {EmptyMap,
     "session" :> "s1",
     ("session" :> "s1") @@ ("lager_session" :> "d2"),
     ("lager_source" :> "d3") @@ ("method" :> "get")}

\* "15.5", "-1.5", "soon".
Timestamps ==
    {<<"1", "5", ".", "5">>, <<"-", "1", ".", "5">>, <<"s", "o", "o", "n">>}

LogFormats ==
    [Source : {"my-component"}, Message : {"my-component.some-action"},
     LogLevel : Levels, Data : DataMaps, Timestamp : Timestamps]

\* The few records the whole-system specification sends.
FewLogFormats ==
    [Source : {"my-component"}, Message : {"my-component.some-action"},
     LogLevel : {DEBUG, ERROR}, Data : {"session" :> "s1"},
     Timestamp : {<<"1", "5", ".", "5">>}]

\* lager.LogLevel is an int: the four named levels and values beside them.
WideLevels == (DEBUG - LevelMargin) .. (FATAL + LevelMargin)

\* Records of every raw level, with nothing in Data.
LevelLogFormats ==
    [Source : {"my-component"}, Message : {"my-component.some-action"},
     LogLevel : WideLevels, Data : {EmptyMap},
     Timestamp : {<<"1", "5", ".", "5">>}]

\* Records that carry a session, below and at the sink's level.
RepeatLogFormats ==
    [Source : {"my-component"}, Message : {"my-component.some-action"},
     LogLevel : {DEBUG, ERROR},
     Data : {d \in DataMaps : "session" \in DOMAIN d},
     Timestamp : {<<"1", "5", ".", "5">>}]

\* The logger hands the record of the call before to a sink again: the
\* LogFormat is copied, its Data is the map that call has already changed.
LogAgain ==
    /\ calls > 0
    /\ \E id \in Intn(MaxInt32), sendErr \in BOOLEAN :
          Log(last.after, last.callerOK, id, sendErr)

\* "15.5", "-1.5", "7", "1504804895.094333887", "1504804895.000000477",
\* "1504804895.000000001", "1504804895.9999999", "-1504804895.5", "soon".
TimeStrings ==
    {<<"1", "5", ".", "5">>,
     <<"-", "1", ".", "5">>,
     <<"7">>,
     <<"1", "5", "0", "4", "8", "0", "4", "8", "9", "5", ".",
       "0", "9", "4", "3", "3", "3", "8", "8", "7">>,
     <<"1", "5", "0", "4", "8", "0", "4", "8", "9", "5", ".",
       "0", "0", "0", "0", "0", "0", "4", "7", "7">>,
     <<"1", "5", "0", "4", "8", "0", "4", "8", "9", "5", ".",
       "0", "0", "0", "0", "0", "0", "0", "0", "1">>,
     <<"1", "5", "0", "4", "8", "0", "4", "8", "9", "5", ".",
       "9", "9", "9", "9", "9", "9", "9">>,
     <<"-", "1", "5", "0", "4", "8", "0", "4", "8", "9", "5", ".", "5">>,
     <<"s", "o", "o", "n">>}

\* Records of every timestamp string, with nothing in Data.
TimeLogFormats ==
    [Source : {"my-component"}, Message : {"my-component.some-action"},
     LogLevel : {ERROR}, Data : {EmptyMap}, Timestamp : TimeStrings]

LogAny(formats, ids) ==
    \E logFormat \in formats, callerOK \in BOOLEAN, id \in ids,
       sendErr \in BOOLEAN :
        Log(logFormat, callerOK, id, sendErr)

DeliverAny(statuses) ==
    \E i \in DOMAIN pending, status \in statuses :
        \E metadata \in ResponseMetadata(pending[i]) :
            Deliver(i, status, metadata)

----------------------------------------------------------------------------
(* Sink.Log called from several goroutines at once.  Each call is split at *)
(* the places where it touches memory another call could reach; logCalls.g *)
(* holds each call's locals, logCalls.data the Data map of each call's     *)
(* record.                                                                 *)

Callers == 1 .. NumCallers

\* One event for every call, kept where all calls reach it.
EventLocationShared(g) == <<"ev", 0>>

\* ev := sink.builder.NewEvent(): a new event for each call.
EventLocation(g) == <<"ev", g>>

\* logFormat.Data: the map of the record this call was given.
DataLocation(g) == <<"data", g>>

Access(loc, write, sync) == [loc |-> loc, write |-> write, sync |-> sync]

\* The memory the next step of call g reads and writes; sync marks an access
\* made under a lock (libhoney's builder and transmission, math/rand's
\* global source).
Accesses(g) ==
    LET c == logCalls.g[g]
    IN  CASE c.pc = "filter" ->
               {Access(<<"sink.minLogLevel", 0>>, FALSE, FALSE)}
          [] c.pc = "NewEvent" ->
               {Access(<<"sink.builder", 0>>, FALSE, FALSE),
                Access(<<"builder", 0>>, FALSE, TRUE),
                Access(EventLocation(g), TRUE, FALSE)}
          [] c.pc = "Intn" ->
               {Access(<<"rand", 0>>, TRUE, TRUE),
                Access(EventLocation(g), TRUE, FALSE)}
          [] c.pc = "session" ->
               {Access(DataLocation(g), FALSE, FALSE),
                Access(EventLocation(g), TRUE, FALSE)}
               \cup (IF "session" \in DOMAIN logCalls.data[g]
                     THEN {Access(DataLocation(g), TRUE, FALSE)} ELSE {})
          [] c.pc = "Add" ->
               {Access(DataLocation(g), FALSE, FALSE),
                Access(EventLocation(g), TRUE, FALSE)}
          [] c.pc = "Send" ->
               {Access(EventLocation(g), TRUE, FALSE),
                Access(<<"transmission", 0>>, TRUE, TRUE)}
          [] OTHER -> {}

\* The record as call g sees it now: its Data is the shared map.
CurrentFormat(g) ==
    [logCalls.g[g].logFormat EXCEPT !.Data = logCalls.data[g]]

\* if logFormat.LogLevel < sink.minLogLevel { return }
FilterStep(g) ==
    /\ logCalls.g[g].pc = "filter"
    /\ logCalls' = [logCalls EXCEPT !.g[g].pc =
                       IF Filtered(logCalls.g[g].logFormat)
                       THEN "returned" ELSE "NewEvent"]
    /\ UNCHANGED <<sink, heapAlloc, calls, last, tokens, pending, responses,
                   closed, rr>>

\* ev := sink.builder.NewEvent() and the runtime.Caller(2) lookup.
NewEventStep(g) ==
    /\ logCalls.g[g].pc = "NewEvent"
    /\ \E callerOK \in BOOLEAN :
          logCalls' = [logCalls EXCEPT
                          !.g[g].pc = "Intn",
                          !.g[g].callerOK = callerOK,
                          !.g[g].ev = WithFunction(NewEvent, callerOK)]
    /\ UNCHANGED <<sink, heapAlloc, calls, last, tokens, pending, responses,
                   closed, rr>>

\* ev.Metadata = {"id": rand.Intn(math.MaxInt32)} and the four fixed fields.
IntnStep(g) ==
    /\ logCalls.g[g].pc = "Intn"
    /\ \E id \in Intn(MaxInt32) :
          logCalls' = [logCalls EXCEPT
                          !.g[g].pc = "session",
                          !.g[g].id = id,
                          !.g[g].ev = WithFixedFields(WithMetadata(@, id),
                                                      logCalls.g[g].logFormat)]
    /\ UNCHANGED <<sink, heapAlloc, calls, last, tokens, pending, responses,
                   closed, rr>>

\* if session, ok := logFormat.Data["session"]; ok { AddField; delete }
SessionStep(g) ==
    /\ logCalls.g[g].pc = "session"
    /\ logCalls' = [logCalls EXCEPT
                       !.g[g].pc = "Add",
                       !.g[g].ev = WithSession(@, CurrentFormat(g)),
                       !.data[g] = DataAfterSession(CurrentFormat(g))]
    /\ UNCHANGED <<sink, heapAlloc, calls, last, tokens, pending, responses,
                   closed, rr>>

\* ev.Add(logFormat.Data)
AddStep(g) ==
    /\ logCalls.g[g].pc = "Add"
    /\ logCalls' = [logCalls EXCEPT
                       !.g[g].pc = "Send",
                       !.g[g].ev = Add(@, logCalls.data[g])]
    /\ UNCHANGED <<sink, heapAlloc, calls, last, tokens, pending, responses,
                   closed, rr>>

\* The timestamp, then err = ev.Send() and the error line.
SendStep(g) ==
    /\ logCalls.g[g].pc = "Send"
    /\ SendReady
    /\ \E sendErr \in BOOLEAN :
          LET ev == WithTimestamp(logCalls.g[g].ev, logCalls.g[g].logFormat)
          IN  /\ logCalls' = [logCalls EXCEPT
                                 !.g[g].pc = "returned",
                                 !.g[g].ev = ev,
                                 !.g[g].sends = @ + 1,
                                 !.g[g].sendErr = sendErr,
                                 !.g[g].printed = @ \o ReportSendError(sendErr)]
              /\ tokens' = tokens \cup {MapIndex(ev.Metadata.val, metadataKeyID)}
              /\ pending' = IF sendErr \/ closed THEN pending
                            ELSE Append(pending, ev.Metadata)
    /\ UNCHANGED <<sink, heapAlloc, calls, last, responses, closed, rr>>

\* A call that has just been made with logFormat.
LogCall(logFormat) ==
    [pc |-> "filter", logFormat |-> logFormat, callerOK |-> FALSE, id |-> 0,
     ev |-> NoEvent, sends |-> 0, sendErr |-> FALSE, printed |-> <<>>]

----------------------------------------------------------------------------
(* Specifications.                                                         *)

\* The whole system: a few records, every response libhoney may give.
Init == InitWith({ERROR})

Next ==
    \/ LogAny(FewLogFormats, Intn(MaxInt32))
    \/ DeliverAny(ResponseStatuses)
    \/ StartReadResponses
    \/ ReadResponses
    \/ Close

Spec == Init /\ [][Next]_vars

\* The whole system again, for one failing and one successful status and one
\* token: what Log and ReadResponses do to each other does not depend on more.
NextDrain ==
    \/ LogAny(FewLogFormats, {x \in Intn(MaxInt32) : x > 0})
    \/ DeliverAny({StatusOK, StatusMultipleChoices})
    \/ StartReadResponses
    \/ ReadResponses
    \/ Close

DrainSpec == Init /\ [][NextDrain]_vars

\* The same with the ReadResponses goroutine scheduled fairly.
FairSpec == DrainSpec /\ WF_vars(ReadResponses)

\* Sink.Log alone, over every record, with the heap changing under it.  The
\* token drawn is the same in every call: nothing else Log does reads it.
InitLog == InitWith({DEBUG, ERROR, FATAL})

NextLog ==
    \/ LogAny(LogFormats, {x \in Intn(MaxInt32) : x > 0})
    \/ Allocate

SpecLog == InitLog /\ [][NextLog]_vars

\* Records with a session, each handed to Log once or again as the call
\* before left it, while the heap and the number of goroutines change; a
\* record without "session" is here one that an earlier call has changed.
NextRepeat ==
    \/ LogAny(RepeatLogFormats, {x \in Intn(MaxInt32) : x > 0})
    \/ LogAgain
    \/ Allocate
    \/ StartReadResponses

SpecRepeat == Init /\ [][NextRepeat]_vars

\* Records of every timestamp string.
NextTime == LogAny(TimeLogFormats, Intn(MaxInt32))

SpecTime == Init /\ [][NextTime]_vars

\* A sink that lets every level through, and records of every raw level.
InitLevels == InitWith({DEBUG - LevelMargin})

NextLevels == LogAny(LevelLogFormats, Intn(MaxInt32))

SpecLevels == InitLevels /\ [][NextLevels]_vars

\* NumCallers goroutines, each calling Sink.Log once with a record of its
\* own, in every interleaving.
InitConcurrent ==
    /\ sink = NewSink("write-key", "dataset", ERROR)
    /\ heapAlloc = 4096
    /\ calls = 0
    /\ last = NoCall
    /\ tokens = {}
    /\ pending = <<>>
    /\ responses = <<>>
    /\ closed = FALSE
    /\ rr = [pc |-> "idle", consumed |-> 0, printed |-> 0, failures |-> 0,
             r |-> NoResponse, lines |-> <<>>]
    /\ \E fs \in [Callers -> FewLogFormats] :
          logCalls = [g |-> [g \in Callers |-> LogCall(fs[g])],
                      data |-> [g \in Callers |-> fs[g].Data]]

NextConcurrent ==
    \E g \in Callers :
        \/ FilterStep(g)
        \/ NewEventStep(g)
        \/ IntnStep(g)
        \/ SessionStep(g)
        \/ AddStep(g)
        \/ SendStep(g)

SpecConcurrent == InitConcurrent /\ [][NextConcurrent]_vars

----------------------------------------------------------------------------
(* Properties of Sink.Log (checked under SpecLog).                         *)

\* The most recent Log call was given a record at or above the minimum level.
Passed == calls > 0 /\ ~(last.logFormat.LogLevel < sink.minLogLevel)

\* C1: a Log call whose record's level is below the sink's minimum level
\* builds no event, calls Send zero times, adds nothing to the events the
\* transport holds or to the tokens handed out, prints no error, and leaves
\* record.data as it was, a "session" key included.
C1_SeverityFilter ==
    [][(calls' = calls + 1 /\ last'.logFormat.LogLevel < sink.minLogLevel)
        => /\ last'.built = 0
           /\ last'.sends = 0
           /\ last'.ev = NoEvent
           /\ last'.printed = <<>>
           /\ last'.Data = last'.logFormat.Data
           /\ pending' = pending
           /\ tokens' = tokens]_vars

C1_Witness ==
    /\ calls > 0
    /\ last.logFormat.LogLevel < sink.minLogLevel
    /\ "session" \in DOMAIN last.logFormat.Data
    /\ "session" \in DOMAIN last.Data
    /\ last.sends = 0

\* The event field names record.data must appear under.
DataFieldNames(data) ==
    (DOMAIN data \ {"session"})
        \cup (IF "session" \in DOMAIN data THEN {"lager_session"} ELSE {})

\* C2 as stated: a passing record gives exactly one Send, and the event has
\* the five fixed fields (function among them), every key of record.data
\* (session as lager_session) and the two dynamic fields.
C2_Original ==
    Passed =>
        /\ last.built = 1
        /\ last.sends = 1
        /\ {"lager_source", "lager_message", "lager_log_level_iota",
            "lager_log_level", "function"} \subseteq DOMAIN last.ev.fields
        /\ DataFieldNames(last.logFormat.Data) \subseteq DOMAIN last.ev.fields
        /\ {"num_goroutines", "memory_allocation"} \subseteq DOMAIN last.ev.fields

\* C2 amended: a passing record gives exactly one Send, and the event has the
\* four fixed fields lager_source, lager_message, lager_log_level_iota and
\* lager_log_level, the field function when runtime.Caller(2) resolved the
\* call site, every key of record.data (session as lager_session) and the
\* two dynamic fields.
C2_OneEventWithFields ==
    Passed =>
        /\ last.built = 1
        /\ last.sends = 1
        /\ {"lager_source", "lager_message", "lager_log_level_iota",
            "lager_log_level"} \subseteq DOMAIN last.ev.fields
        /\ last.callerOK => "function" \in DOMAIN last.ev.fields
        /\ DataFieldNames(last.logFormat.Data) \subseteq DOMAIN last.ev.fields
        /\ {"num_goroutines", "memory_allocation"} \subseteq DOMAIN last.ev.fields

C2_Witness ==
    /\ Passed
    /\ last.sends = 1
    /\ ~last.callerOK
    /\ "function" \notin DOMAIN last.ev.fields
    /\ DOMAIN last.logFormat.Data = {"session", "lager_session"}
    /\ last.ev.fields["memory_allocation"] = 8192

\* C3 as stated: in the event of a passing record lager_source is
\* record.source, lager_message is record.message, lager_log_level_iota is
\* the level's ordinal and lager_log_level its name, whatever record.data
\* holds.
C3_FixedFieldMapping ==
    Passed =>
        /\ last.ev.fields["lager_source"] = last.logFormat.Source
        /\ last.ev.fields["lager_message"] = last.logFormat.Message
        /\ last.ev.fields["lager_log_level_iota"] = last.logFormat.LogLevel
        /\ last.ev.fields["lager_log_level"] =
               (CASE last.logFormat.LogLevel = 0 -> "DEBUG"
                  [] last.logFormat.LogLevel = 1 -> "INFO"
                  [] last.logFormat.LogLevel = 2 -> "ERROR"
                  [] last.logFormat.LogLevel = 3 -> "FATAL"
                  [] OTHER -> "UNKNOWN")

\* C4 as stated: when a passing record's data holds "session" with value v,
\* the event has lager_session = v and no field session, and record.data no
\* longer holds "session", also when data holds a key lager_session.
C4_SessionNamespacing ==
    (Passed /\ "session" \in DOMAIN last.logFormat.Data) =>
        /\ "lager_session" \in DOMAIN last.ev.fields
        /\ last.ev.fields["lager_session"] = last.logFormat.Data["session"]
        /\ "session" \notin DOMAIN last.ev.fields
        /\ "session" \notin DOMAIN last.Data

\* The timestamp of the most recent record is a decimal number: an optional
\* sign, then digits with at most one point among them.
LastTimestampIsNumber ==
    LET ts == last.logFormat.Timestamp
        body == IF Len(ts) > 0 /\ ts[1] \in {"+", "-"} THEN Tail(ts) ELSE ts
    IN  /\ \A i \in DOMAIN body : body[i] \in DigitChars \cup {"."}
        /\ Cardinality({i \in DOMAIN body : body[i] = "."}) <= 1
        /\ \E i \in DOMAIN body : body[i] \in DigitChars

\* C5: for a passing record Send is called once whatever the timestamp; if
\* the timestamp is no number the event carries lager_timestamp_parse_error
\* holding the parse error and keeps the timestamp it was built with; if it
\* is a number the event's timestamp is the parsed instant and Log adds no
\* lager_timestamp_parse_error field.
C5_TimestampResolution ==
    Passed =>
        /\ last.sends = 1
        /\ IF LastTimestampIsNumber
           THEN /\ last.ev.Timestamp.kind = "unix"
                /\ last.logFormat.Timestamp = <<"1", "5", ".", "5">>
                       => last.ev.Timestamp = [kind |-> "unix", sec |-> 15, nsec |-> 500000000]
                /\ last.ev.Timestamp = parseLagerTimestamp(last.logFormat.Timestamp).t
                /\ "lager_timestamp_parse_error" \notin DOMAIN last.ev.fields
           ELSE /\ "lager_timestamp_parse_error" \in DOMAIN last.ev.fields
                /\ last.ev.fields["lager_timestamp_parse_error"] = ErrSyntax
                /\ last.ev.Timestamp = TimeNow

C5_Witness ==
    /\ Passed
    /\ last.logFormat.Timestamp = <<"s", "o", "o", "n">>
    /\ last.sends = 1
    /\ last.ev.Timestamp = TimeNow
    /\ "lager_timestamp_parse_error" \in DOMAIN last.ev.fields

----------------------------------------------------------------------------
(* Properties of ReadResponses and of the two together (checked under     *)
(* Spec, DrainSpec and FairSpec).                                          *)

\* ReadResponses has taken a response off the channel; r is the most recent.
Consumed == rr.consumed > 0

Is2xx(r) == 200 <= r.StatusCode /\ r.StatusCode < 300

HasToken(metadata) ==
    metadata.kind = "map[string]interface{}" /\ "id" \in DOMAIN metadata.val

\* C6: ReadResponses has printed exactly one line per response it has taken,
\* whatever came before it: an error line with the status code, the error and
\* the body when the status is outside [200, 300), whatever the metadata; the
\* error line "metadata was nil" when the status is 2xx and the metadata is
\* nil; a success line naming the token and the duration when the status is
\* 2xx and the metadata is a map holding "id".
C6_OneReportPerOutcome ==
    /\ rr.printed = rr.consumed
    /\ Consumed =>
        /\ Len(rr.lines) = 1
        /\ LET r == rr.r
               l == rr.lines[1]
           IN  /\ ~Is2xx(r) =>
                     /\ l.kind = "error"
                     /\ l.text = "bad status code"
                     /\ l.StatusCode = r.StatusCode
                     /\ l.Err = r.Err
                     /\ l.Body = r.Body
               /\ (Is2xx(r) /\ r.Metadata = NilMetadata) =>
                     /\ l.kind = "error"
                     /\ l.text = "metadata was nil"
               /\ (Is2xx(r) /\ HasToken(r.Metadata)) =>
                     /\ l.kind = "success"
                     /\ l.id = [nil |-> FALSE, v |-> r.Metadata.val["id"]]
                     /\ l.Duration = r.Duration

\* A success line printed right after a failure.
C6_Witness ==
    /\ rr.consumed = 2
    /\ rr.failures = 1
    /\ rr.r.StatusCode = 299
    /\ rr.lines[1].kind = "success"
    /\ rr.lines[1].id = [nil |-> FALSE, v |-> 0]

\* C7 as stated: a 2xx response whose metadata is neither nil nor a map
\* holding "id" gets the error line for metadata of the wrong shape, never a
\* success line.
C7_MalformedMetadata ==
    (Consumed /\ Is2xx(rr.r) /\ rr.r.Metadata # NilMetadata /\ ~HasToken(rr.r.Metadata)) =>
        /\ Len(rr.lines) = 1
        /\ rr.lines[1].kind = "error"
        /\ rr.lines[1].text = "metadata was not expected type map[string]interface{}"

\* C8: the loop leaves only on a closed and empty channel, never because of
\* what a response held; with the ReadResponses goroutine scheduled fairly
\* every response put on the channel while it runs gets its line, and once
\* the channel is closed the loop returns.
C8_DrainLoop ==
    /\ [][(rr.pc = "running" /\ rr'.pc # "running")
            => (closed /\ responses = <<>> /\ rr'.pc = "done" /\ rr'.consumed = rr.consumed)]_vars
    /\ [](rr.pc = "done" => (closed /\ responses = <<>>))
    /\ \A n \in 1 .. MaxLogs :
          (rr.pc = "running" /\ rr.consumed + Len(responses) >= n) ~> (rr.printed >= n)
    /\ (rr.pc = "running" /\ closed) ~> (rr.pc = "done")

\* The loop has returned after a failure followed by further responses.
C8_Witness ==
    /\ rr.pc = "done"
    /\ rr.consumed = 2
    /\ rr.failures >= 1
    /\ rr.lines[1].kind = "success"

\* C9: as long as the model lets Log be called at all, a Log call with a
\* passing record can run to its end, whether ReadResponses has not been started, is running or has
\* returned, and whatever is waiting on the channel; a Log step reads nothing
\* off the channel and leaves the event it sent unanswered; and ReadResponses
\* is not running after NewSink, nor started by a Log step.
C9_LogIndependentOfReader ==
    /\ rr.pc = "idle"
    /\ [](calls < MaxLogs =>
            \A logFormat \in FewLogFormats :
                ~(logFormat.LogLevel < sink.minLogLevel) =>
                    ENABLED LogAny({logFormat}, Intn(MaxInt32)))
    /\ [][calls' = calls + 1
            => /\ rr' = rr
               /\ responses' = responses
               /\ (last'.sends = 1 /\ Len(pending') > Len(pending))
                     => pending'[Len(pending')] = last'.ev.Metadata]_vars

\* A Log call completed while ReadResponses was not started and a response
\* waited unread; its own event is still unanswered.
C9_Witness ==
    /\ rr.pc = "idle"
    /\ responses # <<>>
    /\ calls = 2
    /\ last.sends = 1
    /\ pending # <<>>
    /\ pending[Len(pending)] = last.ev.Metadata

\* C10: the event of a passing record carries as Metadata a map whose only
\* key is "id", holding an integer of [0, 2^31); and when the response's
\* metadata is the metadata its event was sent with, the token a success line
\* names is the token of an event handed to Send before.
C10_CorrelationToken ==
    /\ Passed =>
        /\ last.ev.Metadata.kind = "map[string]interface{}"
        /\ DOMAIN last.ev.Metadata.val = {"id"}
        /\ last.ev.Metadata.val["id"] \in Int
        /\ 0 <= last.ev.Metadata.val["id"]
        /\ last.ev.Metadata.val["id"] <= 2147483647
        /\ [nil |-> FALSE, v |-> last.ev.Metadata.val["id"]] \in tokens
    /\ (Consumed /\ rr.r.Metadata = rr.r.event) =>
        \A i \in DOMAIN rr.lines :
            rr.lines[i].kind = "success" =>
                /\ rr.lines[i].id \in tokens
                /\ ~rr.lines[i].id.nil
                /\ rr.lines[i].id.v = rr.r.event.val["id"]

\* Two calls drew different tokens, and a success line names one of them.
C10_Witness ==
    /\ Cardinality(tokens) = 2
    /\ Consumed
    /\ rr.r.Metadata = rr.r.event
    /\ rr.lines[1].kind = "success"
    /\ rr.lines[1].id = [nil |-> FALSE, v |-> 2147483646]

----------------------------------------------------------------------------
(* Failure of ev.Send() (checked under Spec).                              *)

\* C11: a Log call whose ev.Send() returns an error prints exactly one
\* "honeylager error" line holding that error, has called Send once and not
\* again, puts nothing into the transport, and leaves the sink, the channel
\* and the reader as they were; and a later Log call whose Send succeeds
\* prints nothing and hands over its event, whatever failed before it.
C11_SendFailureContained ==
    [][calls' = calls + 1 =>
        /\ last'.sendErr =>
              /\ last'.printed = <<[prefix |-> "honeylager error", err |-> ErrSend]>>
              /\ last'.sends = 1
              /\ pending' = pending
              /\ sink' = sink
              /\ responses' = responses
              /\ rr' = rr
              /\ closed' = closed
        /\ (last'.sends = 1 /\ ~last'.sendErr) =>
              /\ last'.printed = <<>>
              /\ ~closed => pending' = Append(pending, last'.ev.Metadata)]_vars

\* A Send that succeeded after an earlier one had failed: two events have
\* been handed to Send, the transport holds the second alone, and nothing
\* has been answered or closed yet.
C11_Witness ==
    /\ calls = 2
    /\ Cardinality(tokens) = 2
    /\ last.sends = 1
    /\ ~last.sendErr
    /\ last.printed = <<>>
    /\ pending = <<last.ev.Metadata>>
    /\ responses = <<>>
    /\ rr.consumed = 0
    /\ ~closed

----------------------------------------------------------------------------
(* Concurrent Log calls (checked under SpecConcurrent).                    *)

\* The next steps of calls g and h touch the same memory, one of them writes
\* it, and they do not both hold a lock for it.
Race(g, h) ==
    \E a \in Accesses(g), b \in Accesses(h) :
        /\ a.loc = b.loc
        /\ a.write \/ b.write
        /\ ~(a.sync /\ b.sync)

Returned(g) == logCalls.g[g].pc = "returned"

Submitted(g) ==
    Returned(g) /\ logCalls.g[g].sends = 1 /\ ~logCalls.g[g].sendErr

\* C12: in every interleaving of the concurrent Log calls, a call with a
\* passing record that has returned has called Send exactly once with the
\* event the same call would have built alone, whose Metadata["id"] is the
\* token that call drew, within [0, MaxInt32); the transport holds one
\* entry per accepted call; no two calls are about to touch the same memory
\* without a lock where one of them writes; and the sink is as NewSink made
\* it.
C12_ConcurrentLogCalls ==
    /\ \A g \in Callers :
          Returned(g) =>
             LET c == logCalls.g[g]
             IN  IF Filtered(c.logFormat)
                 THEN c.sends = 0 /\ c.ev = NoEvent
                 ELSE /\ c.sends = 1
                      /\ c.ev = LogEvent(c.logFormat, c.callerOK, c.id)
                      /\ c.ev.Metadata = MapMetadata(metadataKeyID :> c.id)
                      /\ c.id >= 0 /\ c.id < MaxInt32
                      /\ MapIndex(c.ev.Metadata.val, metadataKeyID) \in tokens
                      /\ logCalls.data[g] = DataAfterSession(c.logFormat)
    /\ Len(pending) = Cardinality({g \in Callers : Submitted(g)})
    /\ \A g \in Callers :
          Submitted(g) =>
             \E i \in DOMAIN pending : pending[i] = logCalls.g[g].ev.Metadata
    /\ \A g, h \in Callers : g # h => ~Race(g, h)
    /\ sink = NewSink("write-key", "dataset", ERROR)

\* Two calls have run interleaved to the end, each with a token of its own in
\* the transport.
C12_Witness ==
    /\ \A g \in Callers : Submitted(g)
    /\ logCalls.g[1].id # logCalls.g[2].id
    /\ Len(pending) = NumCallers
    /\ pending[1] = logCalls.g[2].ev.Metadata

----------------------------------------------------------------------------
(* Level rendering (checked under SpecLevels).                             *)

\* C13: the lager_log_level string of an event is "DEBUG", "INFO", "ERROR"
\* or "FATAL" for the four named levels and "UNKNOWN" for every other raw
\* value, below DEBUG or above FATAL; the field is always there and is never
\* a sixth string, and lager_log_level_iota is the raw value.
C13_LevelRendering ==
    (Passed /\ last.built = 1) =>
        LET l == last.logFormat.LogLevel
            f == last.ev.fields
        IN  /\ "lager_log_level" \in DOMAIN f
            /\ f["lager_log_level"] \in {"DEBUG", "INFO", "ERROR", "FATAL", "UNKNOWN"}
            /\ l = 0 => f["lager_log_level"] = "DEBUG"
            /\ l = 1 => f["lager_log_level"] = "INFO"
            /\ l = 2 => f["lager_log_level"] = "ERROR"
            /\ l = 3 => f["lager_log_level"] = "FATAL"
            /\ (l < 0 \/ l > 3) => f["lager_log_level"] = "UNKNOWN"
            /\ f["lager_log_level_iota"] = l
            /\ "lager_timestamp_parse_error" \notin DOMAIN f

\* An event of a raw level below DEBUG, rendered as UNKNOWN, after one of a
\* named level.
C13_Witness ==
    /\ calls = 2
    /\ last.built = 1
    /\ last.logFormat.LogLevel = 0 - 1
    /\ last.ev.fields["lager_log_level"] = "UNKNOWN"

----------------------------------------------------------------------------
(* What Log changes and what it reads (checked under SpecRepeat).          *)

\* C15: after a Log call the caller's record has the source, message, level
\* and timestamp it had; its data has lost at most the key "session" and
\* every key left has the value it had; a passing call leaves no "session";
\* and the sink is the same before and after the call.
C15_LogFrame ==
    [][calls' = calls + 1 =>
        LET before == last'.logFormat
            after == last'.after
        IN  /\ after.Source = before.Source
            /\ after.Message = before.Message
            /\ after.LogLevel = before.LogLevel
            /\ after.Timestamp = before.Timestamp
            /\ DOMAIN after.Data \subseteq DOMAIN before.Data
            /\ (DOMAIN before.Data \ DOMAIN after.Data) \subseteq {"session"}
            /\ \A k \in DOMAIN after.Data : after.Data[k] = before.Data[k]
            /\ last'.built = 1 => "session" \notin DOMAIN after.Data
            /\ last'.Data = after.Data
            /\ sink' = sink]_vars

\* A record with a session beside another key, after a passing call.
C15_Witness ==
    /\ calls = 2
    /\ last.built = 1
    /\ last.logFormat.Data = ("session" :> "s1") @@ ("lager_session" :> "d2")
    /\ last.after.Data = ("lager_session" :> "d2")

\* C16: a new event always holds num_goroutines and memory_allocation and
\* nothing else, with no Metadata yet; and every event Log submits carries
\* the heap size and the goroutine count of the moment of that call, not
\* those of the moment NewSink ran, while the builder keeps its two dynamic
\* fields.
C16_DynamicFieldsAtConstruction ==
    /\ [](/\ DOMAIN NewEvent.fields = {"num_goroutines", "memory_allocation"}
          /\ NewEvent.fields["memory_allocation"] = heapAlloc
          /\ NewEvent.fields["num_goroutines"] = NumGoroutine
          /\ NewEvent.Metadata = NilMetadata)
    /\ [][(calls' = calls + 1 /\ last'.built = 1) =>
            /\ last'.ev.fields["memory_allocation"] = heapAlloc
            /\ last'.ev.fields["num_goroutines"] = NumGoroutine
            /\ sink'.builder.dynFields = {"num_goroutines", "memory_allocation"}]_vars

\* An event built after the heap grew and the reader goroutine started.
C16_Witness ==
    /\ calls = 2
    /\ last.built = 1
    /\ heapAlloc # 4096
    /\ last.ev.fields["memory_allocation"] = heapAlloc
    /\ last.ev.fields["num_goroutines"] = 2

\* The fields of an event that come from the record and the call site.
RecordFields(ev) ==
    [k \in DOMAIN ev.fields \ {"num_goroutines", "memory_allocation",
                               "lager_session"} |-> ev.fields[k]]

\* The event's lager_session, if it has one, is the Data entry of that name.
NoSessionDerived(ev, data) ==
    "lager_session" \in DOMAIN ev.fields =>
        /\ "lager_session" \in DOMAIN data
        /\ ev.fields["lager_session"] = data["lager_session"]

\* The step is a Log call that submits an event for the record the call
\* before it submitted one for, from the same place: that call found a
\* "session", and this one is given the record as that one left it.
SecondDelivery ==
    /\ calls > 0
    /\ last.built = 1
    /\ "session" \in DOMAIN last.logFormat.Data
    /\ last'.logFormat = last.after
    /\ last'.built = 1
    /\ last'.callerOK = last.callerOK

----------------------------------------------------------------------------
(* Timestamp decomposition (checked under SpecTime).                       *)

\* n * 2^bits / 10^9 <= num: n nanoseconds are not more than the fraction.
NotAbove(n, num, bits) ==
    LET p == ScalePow2(n, bits, NanosPerSecond)
    IN  p.q < num \/ (p.q = num /\ p.r = 0)

\* "1504804895.094333887"
ExampleTimestamp ==
    <<"1", "5", "0", "4", "8", "0", "4", "8", "9", "5", ".",
      "0", "9", "4", "3", "3", "3", "8", "8", "7">>

====
